---- MODULE Spec2Model ----
(***************************************************************************)
(* Model of the manifest generators of pkg/asset/manifests:                *)
(*   - Networking (Generate, Files, ClusterNetwork, Load)                  *)
(*   - clusterDNSOperator (Generate)                                       *)
(*                                                                         *)
(* Go values are represented as follows.  A pointer, a slice and an error  *)
(* are sequences: the empty sequence is nil, a one-element sequence is a   *)
(* non-nil pointer to that element, an error is the sequence of its        *)
(* messages (outermost context first).  A path is the sequence of its     *)
(* elements.  A file's bytes are a YAML document, written as the sequence  *)
(* of its scalar lines.                                                    *)
(***************************************************************************)
EXTENDS Integers, Sequences, FiniteSets, TLC

\* Longest cluster-network list an install config carries in the model.
MaxNets == 2

\* Number of calls made on one Networking asset.
MaxCalls == 2

\* Number of vendor asset keys the DNS operator's bundle may hold.
MaxKeys == 3

Nil == <<>>

(***************************************************************************)
(* net.IP and ipnet.IPNet                                                  *)
(***************************************************************************)
v4InV6Prefix == <<0, 0, 0, 0, 0, 0, 0, 0, 0, 0, 255, 255>>

IPv4zero == v4InV6Prefix \o <<0, 0, 0, 0>>

IPv6unspecified == <<0, 0, 0, 0, 0, 0, 0, 0, 0, 0, 0, 0, 0, 0, 0, 0>>

\* net.IP.Equal: an IPv4 address and its 16-byte form are the same address.
IPEqual(ip, x) ==
    IF Len(ip) = Len(x) THEN ip = x
    ELSE IF Len(ip) = 4 /\ Len(x) = 16
         THEN SubSeq(x, 1, 12) = v4InV6Prefix /\ ip = SubSeq(x, 13, 16)
    ELSE IF Len(ip) = 16 /\ Len(x) = 4
         THEN SubSeq(ip, 1, 12) = v4InV6Prefix /\ SubSeq(ip, 13, 16) = x
    ELSE FALSE

\* net.IP.IsUnspecified, as called on PodCIDR.IPNet.IP.
IsUnspecified(ip) ==
    IPEqual(ip, IPv4zero) \/ IPEqual(ip, IPv6unspecified)

\* net.IP.To4: the 4-byte form of an IPv4 address, nil otherwise.
To4(ip) ==
    IF Len(ip) = 4 THEN ip
    ELSE IF Len(ip) = 16 /\ SubSeq(ip, 1, 12) = v4InV6Prefix THEN SubSeq(ip, 13, 16)
    ELSE Nil

\* The zero value of ipnet.IPNet: no address, no mask.
ZeroIPNet == [IP |-> Nil, Ones |-> 0]

\* ipnet.IPNet.String (net.IPNet.String): "<nil>" without an address,
\* otherwise the address in its shortest form, a slash and the prefix length.
CIDRString(n) ==
    CASE n.IP = Nil -> "<nil>"
      [] To4(n.IP) = <<0, 0, 0, 0>> /\ n.Ones = 0 -> "0.0.0.0/0"
      [] n.IP = IPv6unspecified /\ n.Ones = 0 -> "::/0"
      [] To4(n.IP) = <<10, 2, 0, 0>> /\ n.Ones = 16 -> "10.2.0.0/16"
      [] To4(n.IP) = <<10, 3, 0, 0>> /\ n.Ones = 16 -> "10.3.0.0/16"
      [] To4(n.IP) = <<172, 30, 0, 0>> /\ n.Ones = 16 -> "172.30.0.0/16"
      [] OTHER -> "<other>"

(***************************************************************************)
(* Inputs: the Networking section of the install config                    *)
(***************************************************************************)
NetworkTypeOpenshiftSDN == "OpenshiftSDN"

NetworkTypeOVNKubernetes == "OVNKubernetes"

SDNModePolicy == "Networkpolicy"

NetworkTypes == {NetworkTypeOpenshiftSDN, NetworkTypeOVNKubernetes}

ServiceCIDRs ==
    { [IP |-> <<10, 3, 0, 0>>, Ones |-> 16], [IP |-> <<172, 30, 0, 0>>, Ones |-> 16] }

PodCIDRs ==
    { ZeroIPNet,
      [IP |-> <<0, 0, 0, 0>>, Ones |-> 0],
      [IP |-> IPv6unspecified, Ones |-> 0],
      [IP |-> <<10, 2, 0, 0>>, Ones |-> 16] }

ClusterNetworkEntries ==
    { [CIDR |-> "10.128.0.0/14", HostSubnetLength |-> 9],
      [CIDR |-> "10.132.0.0/14", HostSubnetLength |-> 23] }

SeqsUpTo(S, n) == UNION { [1..k -> S] : k \in 0..n }

\* The install configs of the model: every list up to MaxNets, every pod
\* CIDR with the empty list, the pod CIDR set or not with a non-empty one,
\* and one service network per network type.
NetConfigs ==
    { nc \in [ Type : NetworkTypes,
               ServiceCIDR : ServiceCIDRs,
               ClusterNetworks : SeqsUpTo(ClusterNetworkEntries, MaxNets),
               PodCIDR : PodCIDRs ] :
        /\ (nc.Type = NetworkTypeOpenshiftSDN) = (nc.ServiceCIDR.IP = <<10, 3, 0, 0>>)
        /\ Len(nc.ClusterNetworks) > 0 => nc.PodCIDR.IP \in {Nil, <<10, 2, 0, 0>>} }

(***************************************************************************)
(* File names and fixed contents                                           *)
(***************************************************************************)
manifestDir == "manifests"

\* filepath.Join of a directory and a name.
Join(dir, name) == <<dir, name>>

noCrdFilename == Join(manifestDir, "cluster-network-01-crd.yml")

noCfgFilename == Join(manifestDir, "cluster-network-02-config.yml")

Line(k, i, v) == [key |-> k, idx |-> i, val |-> v]

netConfigCRD ==
    << Line("apiVersion", 0, "apiextensions.k8s.io/v1beta1"),
       Line("kind", 0, "CustomResourceDefinition"),
       Line("metadata.name", 0, "networkconfigs.networkoperator.openshift.io"),
       Line("spec.group", 0, "networkoperator.openshift.io"),
       Line("spec.names.kind", 0, "NetworkConfig"),
       Line("spec.names.listKind", 0, "NetworkConfigList"),
       Line("spec.names.plural", 0, "networkconfigs"),
       Line("spec.names.singular", 0, "networkconfig"),
       Line("spec.scope", 0, "Cluster"),
       Line("spec.versions.name", 1, "v1"),
       Line("spec.versions.served", 1, "true"),
       Line("spec.versions.storage", 1, "true") >>

(***************************************************************************)
(* Errors                                                                  *)
(***************************************************************************)
ErrNetworkingRequired == <<"Either PodCIDR or ClusterNetworks must be specified">>

ErrNotInitialized == <<"ClusterNetwork called before initialization">>

ErrNotExist == <<"file does not exist">>

ErrIO == <<"input/output error">>

ErrMarshal == <<"error marshaling into JSON">>

ErrYAMLSyntax == <<"yaml: did not find expected key">>

ErrJSONType == <<"json: cannot unmarshal string into Go value of type uint32">>

\* errors.Wrapf: the context in front of the cause.
Wrapf(err, context) == context \o err

\* os.IsNotExist
IsNotExist(err) == err = ErrNotExist

(***************************************************************************)
(* yaml.Marshal and yaml.Unmarshal of a netopv1.NetworkConfig              *)
(*                                                                         *)
(* The document follows the struct's json tags with the keys of a mapping  *)
(* in sorted order; an integer is written in decimal and read back from    *)
(* decimal; a nil pointer tagged omitempty is left out; a list entry's     *)
(* lines carry the entry's position.                                       *)
(***************************************************************************)
UintRange == 0..32

FormatUint(n) == ToString(n)

\* strconv on a scalar's text: the number it denotes, if any.
ParseUint(s) ==
    IF \E n \in UintRange : ToString(n) = s
    THEN [ok |-> TRUE, n |-> CHOOSE n \in UintRange : ToString(n) = s]
    ELSE [ok |-> FALSE, n |-> 0]

MarshalClusterNetworks(nets) ==
    IF Len(nets) = 0 THEN << Line("spec.clusterNetworks", 0, "null") >>
    ELSE LET both == [ i \in 1..(2 * Len(nets)) |->
                         LET e == (i + 1) \div 2 IN
                         IF i % 2 = 1
                         THEN Line("spec.clusterNetworks.cidr", e, nets[e].CIDR)
                         ELSE Line("spec.clusterNetworks.hostSubnetLength", e,
                                   FormatUint(nets[e].HostSubnetLength)) ]
         IN both

\* A marshaller that writes only the first entry of the list.
MarshalFirstNetworkOnly(config) ==
    << Line("apiVersion", 0, config.APIVersion),
       Line("kind", 0, config.Kind),
       Line("metadata.creationTimestamp", 0, "null"),
       Line("metadata.name", 0, config.Name) >>
    \o MarshalClusterNetworks(SubSeq(config.Spec.ClusterNetworks, 1, 1))
    \o (IF config.Spec.DefaultNetwork.OpenshiftSDNConfig = Nil THEN <<>>
        ELSE << Line("spec.defaultNetwork.openshiftSDNConfig.mode", 0,
                     config.Spec.DefaultNetwork.OpenshiftSDNConfig[1].Mode) >>)
    \o << Line("spec.defaultNetwork.type", 0, config.Spec.DefaultNetwork.Type),
          Line("spec.serviceNetwork", 0, config.Spec.ServiceNetwork),
          Line("status", 0, "{}") >>

Marshal(config) ==
    << Line("apiVersion", 0, config.APIVersion),
       Line("kind", 0, config.Kind),
       Line("metadata.creationTimestamp", 0, "null"),
       Line("metadata.name", 0, config.Name) >>
    \o MarshalClusterNetworks(config.Spec.ClusterNetworks)
    \o (IF config.Spec.DefaultNetwork.OpenshiftSDNConfig = Nil THEN <<>>
        ELSE << Line("spec.defaultNetwork.openshiftSDNConfig.mode", 0,
                     config.Spec.DefaultNetwork.OpenshiftSDNConfig[1].Mode) >>)
    \o << Line("spec.defaultNetwork.type", 0, config.Spec.DefaultNetwork.Type),
          Line("spec.serviceNetwork", 0, config.Spec.ServiceNetwork),
          Line("status", 0, "{}") >>

\* The lines of a document under one key (and position).
Lines(doc, k, i) == SelectSeq(doc, LAMBDA l : l.key = k /\ l.idx = i)

HasKey(doc, k, i) == Lines(doc, k, i) # <<>>

\* A string field: its scalar, or "" when the key is absent or null.
StringField(doc, k, i) ==
    LET ls == Lines(doc, k, i) IN
    IF ls = <<>> \/ ls[Len(ls)].val = "null" THEN "" ELSE ls[Len(ls)].val

\* A line without a key is not a mapping entry: the document is not YAML.
SyntaxError(doc) == \E i \in 1..Len(doc) : doc[i].key = ""

ListLength(doc) ==
    LET idxs == { doc[i].idx : i \in { j \in 1..Len(doc) :
                     doc[j].key \in { "spec.clusterNetworks.cidr",
                                      "spec.clusterNetworks.hostSubnetLength" } } }
    IN IF idxs = {} THEN 0 ELSE CHOOSE m \in idxs : \A x \in idxs : x <= m

\* A hostSubnetLength that is present but is not a number.
TypeError(doc) ==
    \E i \in 1..Len(doc) :
        /\ doc[i].key = "spec.clusterNetworks.hostSubnetLength"
        /\ ~ParseUint(doc[i].val).ok

UnmarshalClusterNetworks(doc) ==
    [ e \in 1..ListLength(doc) |->
        [ CIDR |-> StringField(doc, "spec.clusterNetworks.cidr", e),
          HostSubnetLength |->
              IF HasKey(doc, "spec.clusterNetworks.hostSubnetLength", e)
              THEN ParseUint(StringField(doc, "spec.clusterNetworks.hostSubnetLength", e)).n
              ELSE 0 ] ]

ZeroNetworkConfig ==
    [ APIVersion |-> "", Kind |-> "", Name |-> "",
      Spec |-> [ ServiceNetwork |-> "", ClusterNetworks |-> <<>>,
                 DefaultNetwork |-> [Type |-> "", OpenshiftSDNConfig |-> Nil] ] ]

\* yaml.Unmarshal(data, &netopv1.NetworkConfig{}): the error and the config.
Unmarshal(doc) ==
    IF SyntaxError(doc) THEN [err |-> ErrYAMLSyntax, config |-> ZeroNetworkConfig]
    ELSE IF TypeError(doc) THEN [err |-> ErrJSONType, config |-> ZeroNetworkConfig]
    ELSE [ err |-> Nil,
           config |->
             [ APIVersion |-> StringField(doc, "apiVersion", 0),
               Kind |-> StringField(doc, "kind", 0),
               Name |-> StringField(doc, "metadata.name", 0),
               Spec |->
                 [ ServiceNetwork |-> StringField(doc, "spec.serviceNetwork", 0),
                   ClusterNetworks |-> UnmarshalClusterNetworks(doc),
                   DefaultNetwork |->
                     [ Type |-> StringField(doc, "spec.defaultNetwork.type", 0),
                       OpenshiftSDNConfig |->
                         IF HasKey(doc, "spec.defaultNetwork.openshiftSDNConfig.mode", 0)
                         THEN << [ Mode |-> StringField(doc,
                                     "spec.defaultNetwork.openshiftSDNConfig.mode", 0) ] >>
                         ELSE Nil ] ] ] ]

(***************************************************************************)
(* Networking.Generate                                                     *)
(***************************************************************************)
DefaultHostSubnetLength == 9

\* A variant that knows only the explicit list.
ClusterNetsNoLegacy(netConfig) ==
    IF Len(netConfig.ClusterNetworks) > 0
    THEN [err |-> Nil, nets |-> netConfig.ClusterNetworks]
    ELSE [err |-> ErrNetworkingRequired, nets |-> Nil]

\* A variant that appends the pod CIDR's entry to a non-empty list as well.
ClusterNetsAlwaysPod(netConfig) ==
    IF ~IsUnspecified(netConfig.PodCIDR.IP)
    THEN [ err |-> Nil,
           nets |-> netConfig.ClusterNetworks \o
                    << [ CIDR |-> CIDRString(netConfig.PodCIDR),
                         HostSubnetLength |-> DefaultHostSubnetLength ] >> ]
    ELSE IF Len(netConfig.ClusterNetworks) > 0
    THEN [err |-> Nil, nets |-> netConfig.ClusterNetworks]
    ELSE [err |-> ErrNetworkingRequired, nets |-> Nil]

\* The pod address space: the explicit list, else the legacy pod CIDR as a
\* single entry, else the error.
ClusterNets(netConfig) ==
    IF Len(netConfig.ClusterNetworks) > 0
    THEN [err |-> Nil, nets |-> netConfig.ClusterNetworks]
    ELSE IF ~IsUnspecified(netConfig.PodCIDR.IP)
    THEN [ err |-> Nil,
           nets |-> << [ CIDR |-> CIDRString(netConfig.PodCIDR),
                         HostSubnetLength |-> DefaultHostSubnetLength ] >> ]
    ELSE [err |-> ErrNetworkingRequired, nets |-> Nil]

\* A variant that sets the SDN plugin config for every network type.
DefaultNetAlwaysSDN(netConfig) ==
    [ Type |-> netConfig.Type,
      OpenshiftSDNConfig |-> << [Mode |-> SDNModePolicy] >> ]

\* The default-network definition with its per-plugin defaults.
DefaultNet(netConfig) ==
    [ Type |-> netConfig.Type,
      OpenshiftSDNConfig |->
          IF netConfig.Type = NetworkTypeOpenshiftSDN
          THEN << [Mode |-> SDNModePolicy] >>
          ELSE Nil ]

NewNetworkConfig(netConfig, clusterNets) ==
    [ APIVersion |-> "networkoperator.openshift.io/v1",
      Kind |-> "NetworkConfig",
      Name |-> "default",
      Spec |-> [ ServiceNetwork |-> CIDRString(netConfig.ServiceCIDR),
                 ClusterNetworks |-> clusterNets,
                 DefaultNetwork |-> DefaultNet(netConfig) ] ]

\* A freshly constructed Networking asset.
NewNetworking == [config |-> Nil, FileList |-> Nil]

\* Generate on asset self with the install config's Networking section;
\* marshalErr is what yaml.Marshal returns as its error.  The result is the
\* asset after the call and the returned error.
GenerateOp(self, netConfig, marshalErr) ==
    LET cn == ClusterNets(netConfig) IN
    IF cn.err # Nil THEN [no |-> self, err |-> cn.err]
    ELSE
      LET config == NewNetworkConfig(netConfig, cn.nets)
          assigned == [self EXCEPT !.config = <<config>>]
      IN IF marshalErr # Nil
         THEN [ no |-> assigned,
                err |-> Wrapf(marshalErr,
                   <<"failed to create Network Config manifests from InstallConfig">>) ]
         ELSE [ no |-> [ assigned EXCEPT !.FileList =
                           << [Filename |-> noCrdFilename, Data |-> netConfigCRD],
                              [Filename |-> noCfgFilename, Data |-> Marshal(config)] >> ],
                err |-> Nil ]

(***************************************************************************)
(* Networking.Files and Networking.ClusterNetwork                          *)
(***************************************************************************)
Files(self) == self.FileList

ClusterNetworkOp(self) ==
    IF self.config = Nil
    THEN [cn |-> Nil, err |-> ErrNotInitialized]
    ELSE LET spec == self.config[1].Spec IN
         [ cn |-> << [ Services |-> <<spec.ServiceNetwork>>,
                       Pods |-> [ i \in 1..Len(spec.ClusterNetworks) |->
                                    spec.ClusterNetworks[i].CIDR ] ] >>,
           err |-> Nil ]

(***************************************************************************)
(* asset.FileFetcher and Networking.Load                                   *)
(***************************************************************************)
\* What a fetcher holds for one name: an error, or the file's bytes.
Fetched(data) == [err |-> Nil, data |-> data]

Absent == [err |-> ErrNotExist, data |-> Nil]

Unreadable == [err |-> ErrIO, data |-> Nil]

\* FileFetcher.FetchByName: the error and the file.
FetchByName(f, name) ==
    LET held == IF name = noCrdFilename THEN f.crd
                ELSE IF name = noCfgFilename THEN f.cfg
                ELSE Absent
    IN [err |-> held.err, file |-> [Filename |-> name, Data |-> held.data]]

\* A variant that fetches the config file first.
LoadOpConfigFirst(self, f) ==
    LET cfg == FetchByName(f, noCfgFilename)
        crd == FetchByName(f, noCrdFilename)
    IN
    IF cfg.err # Nil
    THEN IF IsNotExist(cfg.err) THEN [no |-> self, ok |-> FALSE, err |-> Nil]
         ELSE [no |-> self, ok |-> FALSE, err |-> cfg.err]
    ELSE IF crd.err # Nil
    THEN IF IsNotExist(crd.err) THEN [no |-> self, ok |-> FALSE, err |-> Nil]
         ELSE [no |-> self, ok |-> FALSE, err |-> crd.err]
    ELSE
      LET u == Unmarshal(cfg.file.Data) IN
      IF u.err # Nil
      THEN [ no |-> self, ok |-> FALSE,
             err |-> Wrapf(u.err, <<"failed to unmarshal">> \o noCfgFilename) ]
      ELSE [ no |-> [config |-> <<u.config>>, FileList |-> <<crd.file, cfg.file>>],
             ok |-> TRUE, err |-> Nil ]

\* A variant that keeps whatever the config file parsed to, error or not.
LoadOpIgnoreParseError(self, f) ==
    LET crd == FetchByName(f, noCrdFilename)
        cfg == FetchByName(f, noCfgFilename)
    IN
    IF crd.err # Nil
    THEN IF IsNotExist(crd.err) THEN [no |-> self, ok |-> FALSE, err |-> Nil]
         ELSE [no |-> self, ok |-> FALSE, err |-> crd.err]
    ELSE IF cfg.err # Nil
    THEN IF IsNotExist(cfg.err) THEN [no |-> self, ok |-> FALSE, err |-> Nil]
         ELSE [no |-> self, ok |-> FALSE, err |-> cfg.err]
    ELSE [ no |-> [ config |-> <<Unmarshal(cfg.file.Data).config>>,
                    FileList |-> <<crd.file, cfg.file>> ],
           ok |-> TRUE, err |-> Nil ]

\* Load on asset self from fetcher f: the asset after the call, the found
\* flag and the error.
LoadOp(self, f) ==
    LET crd == FetchByName(f, noCrdFilename)
        cfg == FetchByName(f, noCfgFilename)
    IN
    IF crd.err # Nil
    THEN IF IsNotExist(crd.err) THEN [no |-> self, ok |-> FALSE, err |-> Nil]
         ELSE [no |-> self, ok |-> FALSE, err |-> crd.err]
    ELSE IF cfg.err # Nil
    THEN IF IsNotExist(cfg.err) THEN [no |-> self, ok |-> FALSE, err |-> Nil]
         ELSE [no |-> self, ok |-> FALSE, err |-> cfg.err]
    ELSE
      LET u == Unmarshal(cfg.file.Data) IN
      IF u.err # Nil
      THEN [ no |-> self, ok |-> FALSE,
             err |-> Wrapf(u.err, <<"failed to unmarshal">> \o noCfgFilename) ]
      ELSE [ no |-> [config |-> <<u.config>>, FileList |-> <<crd.file, cfg.file>>],
             ok |-> TRUE, err |-> Nil ]

\* The fetcher that serves exactly the files of a file list.
FetcherOf(files) ==
    LET held(name) ==
          IF \E i \in 1..Len(files) : files[i].Filename = name
          THEN Fetched(files[CHOOSE i \in 1..Len(files) : files[i].Filename = name].Data)
          ELSE Absent
    IN [crd |-> held(noCrdFilename), cfg |-> held(noCfgFilename)]

(***************************************************************************)
(* The fetchers Load is called with                                        *)
(***************************************************************************)
\* Config documents on disk: rendered ones, an empty one, one that is not
\* YAML and one whose hostSubnetLength is not a number.
RenderedNetConfigs ==
    { nc \in NetConfigs :
        /\ nc.PodCIDR.IP = <<10, 2, 0, 0>>
        /\ Len(nc.ClusterNetworks) = 0 }

NotYAML == << Line("", 0, "\t{:") >>

BadSubnetLength ==
    << Line("kind", 0, "NetworkConfig"),
       Line("spec.clusterNetworks.cidr", 1, "10.128.0.0/14"),
       Line("spec.clusterNetworks.hostSubnetLength", 1, "nine") >>

ConfigDocs ==
    { Marshal(NewNetworkConfig(nc, ClusterNets(nc).nets)) : nc \in RenderedNetConfigs }
    \cup { <<>>, NotYAML, BadSubnetLength }

CRDDocs == { netConfigCRD, NotYAML }

Fetchers ==
    [ crd : { Fetched(d) : d \in CRDDocs } \cup {Absent, Unreadable},
      cfg : { Fetched(d) : d \in ConfigDocs } \cup {Absent, Unreadable} ]

(***************************************************************************)
(* State                                                                   *)
(***************************************************************************)
VARIABLES
    no,           \* the Networking asset: config and FileList
    calls,        \* how many calls were made on it
    initialized,  \* history: some Generate returned nil or some Load returned true
    last,         \* the most recent call on the asset: its inputs and results
    other,        \* a second, fresh asset and what Load returned on it
    cdo           \* the clusterDNSOperator asset and its last Generate call

vars == <<no, calls, initialized, last, other, cdo>>

NoCall ==
    [ op |-> "none", netConfig |-> Nil, marshalErr |-> Nil, f |-> Nil,
      err |-> Nil, ok |-> FALSE, cn |-> Nil ]

NoOther == [called |-> FALSE, no |-> NewNetworking, ok |-> FALSE, err |-> Nil]

InitNetworking ==
    /\ no = NewNetworking
    /\ calls = 0
    /\ initialized = FALSE
    /\ last = NoCall
    /\ other = NoOther

(***************************************************************************)
(* Actions on the Networking asset                                         *)
(***************************************************************************)
Generate ==
    /\ calls < MaxCalls
    /\ calls' = calls + 1
    /\ \E netConfig \in NetConfigs, marshalErr \in {Nil, ErrMarshal} :
        LET r == GenerateOp(no, netConfig, marshalErr) IN
        /\ no' = r.no
        /\ initialized' = (initialized \/ r.err = Nil)
        /\ last' = [ NoCall EXCEPT !.op = "Generate", !.netConfig = <<netConfig>>,
                                   !.marshalErr = marshalErr, !.err = r.err ]
        /\ other' = NoOther
        /\ UNCHANGED cdo

Load ==
    /\ calls < MaxCalls
    /\ calls' = calls + 1
    /\ \E f \in Fetchers :
        LET r == LoadOp(no, f) IN
        /\ no' = r.no
        /\ initialized' = (initialized \/ r.ok)
        /\ last' = [ NoCall EXCEPT !.op = "Load", !.f = <<f>>,
                                   !.ok = r.ok, !.err = r.err ]
        /\ other' = NoOther
        /\ UNCHANGED cdo

ClusterNetwork ==
    LET r == ClusterNetworkOp(no) IN
    /\ calls < MaxCalls
    /\ calls' = calls + 1
    /\ last' = [NoCall EXCEPT !.op = "ClusterNetwork", !.cn = r.cn, !.err = r.err]
    /\ other' = NoOther
    /\ UNCHANGED <<no, initialized, cdo>>

\* Load on a fresh asset, from a fetcher that serves the files of the first.
Reload ==
    /\ Files(no) # Nil
    /\ ~other.called
    /\ LET r == LoadOp(NewNetworking, FetcherOf(Files(no))) IN
       other' = [called |-> TRUE, no |-> r.no, ok |-> r.ok, err |-> r.err]
    /\ UNCHANGED <<no, calls, initialized, last, cdo>>

(***************************************************************************)
(* clusterDNSOperator.Generate                                             *)
(***************************************************************************)
\* The names the vendor bundle may use, in ascending byte order.
AllKeys ==
    << "assets/dns/cluster-role-binding.yaml",
       "assets/dns/cluster-role.yaml",
       "assets/dns/daemonset.yaml",
       "assets/dns/namespace.yaml",
       "assets/dns/service.yaml" >>

KeySet == { AllKeys[i] : i \in 1..MaxKeys }

KeyRank(k) == CHOOSE i \in 1..Len(AllKeys) : AllKeys[i] = k

\* The order of Go strings, on the names of the bundle.
StringLess(a, b) == KeyRank(a) < KeyRank(b)

\* The bytes the bundle holds under a key.
AssetBytes(k) == << Line("metadata.name", 0, k) >>

\* f.OperatorAssetContent(): a map from key to bytes.
Bundles == { [k \in K |-> AssetBytes(k)] : K \in SUBSET KeySet }

\* The orders in which a range over a map may visit its keys.
RangeOrders(m) ==
    { o \in [1..Cardinality(DOMAIN m) -> DOMAIN m] :
        \A i, j \in DOMAIN o : i # j => o[i] # o[j] }

RECURSIVE Insert(_, _)
Insert(sorted, k) ==
    IF sorted = <<>> THEN <<k>>
    ELSE IF StringLess(k, Head(sorted)) THEN <<k>> \o sorted
    ELSE <<Head(sorted)>> \o Insert(Tail(sorted), k)

\* A variant that leaves the keys in the order the map gave them.
KeepOrder(keys) == keys

\* sort.Strings
RECURSIVE SortStrings(_)
SortStrings(keys) ==
    IF keys = <<>> THEN <<>>
    ELSE Insert(SortStrings(Tail(keys)), Head(keys))

ErrInstallConfig == <<"failed to get InstallConfig from parents">>

ErrClusterDNSIP == <<"cannot derive the cluster DNS IP from the service CIDR">>

ErrAssets == <<"failed to load operator assets">>

DNSInstallConfigs ==
    [ BaseDomain : {"example.com", "cluster.test"},
      ServiceCIDR : {[IP |-> <<10, 3, 0, 0>>, Ones |-> 16], ZeroIPNet} ]

\* installconfig.ClusterDNSIP: the tenth address of the service network.
ClusterDNSIP(ic) ==
    IF ic.ServiceCIDR.IP = <<10, 3, 0, 0>> THEN [ip |-> "10.3.0.10", err |-> Nil]
    ELSE [ip |-> "", err |-> ErrClusterDNSIP]

\* dnsOperatorConfig: the ClusterDNS object, or the helper's error.
dnsOperatorConfig(installConfig) ==
    LET r == ClusterDNSIP(installConfig) IN
    IF r.err # Nil THEN [config |-> Nil, err |-> r.err]
    ELSE [ config |-> << [ClusterIP |-> r.ip, ClusterDomain |-> installConfig.BaseDomain] >>,
           err |-> Nil ]

\* yaml.Marshal of a ClusterDNS.
MarshalClusterDNS(c) ==
    << Line("spec.clusterDomain", 0, c.ClusterDomain),
       Line("spec.clusterIP", 0, c.ClusterIP) >>

\* dnsConfig: yaml.Marshal(cdo.dnsOperatorConfig()).  The call passes both
\* results of dnsOperatorConfig on; its error is taken to be returned as
\* dnsConfig's error, as is yaml.Marshal's own.
dnsConfig(installConfig, marshalErr) ==
    LET r == dnsOperatorConfig(installConfig) IN
    IF r.err # Nil THEN [data |-> Nil, err |-> r.err]
    ELSE IF marshalErr # Nil THEN [data |-> Nil, err |-> marshalErr]
    ELSE [data |-> MarshalClusterDNS(r.config[1]), err |-> Nil]

\* Generate on asset self.  got is what GetInstallConfig returns, assets what
\* assetData returns, order the order in which the range visits the map.
\* The result is the asset after the call, the returned state and the error.
DNSGenerateOp(self, got, marshalErr, assets, order) ==
    IF got.err # Nil THEN [cdo |-> self, state |-> Nil, err |-> got.err]
    ELSE
      LET assigned == [self EXCEPT !.installConfig = <<got.ic>>]
          dns == dnsConfig(got.ic, marshalErr)
      IN
      IF dns.err # Nil THEN [cdo |-> assigned, state |-> Nil, err |-> dns.err]
      ELSE IF assets.err # Nil THEN [cdo |-> assigned, state |-> Nil, err |-> assets.err]
      ELSE
        LET keys == SortStrings(order)
            assetContents ==
              [ i \in 1..Len(keys) |->
                  [ Name |-> Join("cluster-dns-operator", keys[i]),
                    Data |-> assets.data[keys[i]] ] ]
        IN [ cdo |-> assigned,
             state |-> << [ Contents |-> Append(assetContents,
                              [ Name |-> <<"cluster-dns-operator-config.yml">>,
                                Data |-> dns.data ]) ] >>,
             err |-> Nil ]

NewDNSOperator == [installConfig |-> Nil]

NoDNSCall ==
    [ op |-> "none", got |-> Nil, marshalErr |-> Nil, assets |-> Nil, order |-> Nil,
      state |-> Nil, err |-> Nil ]

InitDNS == cdo = [self |-> NewDNSOperator, call |-> NoDNSCall]

DNSGenerate ==
    \E got \in { [ic |-> ic, err |-> Nil] : ic \in DNSInstallConfigs }
                 \cup { [ic |-> Nil, err |-> ErrInstallConfig] },
       marshalErr \in {Nil, ErrMarshal},
       assetsErr \in {Nil, ErrAssets},
       bundle \in Bundles :
      \E order \in RangeOrders(bundle) :
        LET assets == IF assetsErr # Nil THEN [data |-> <<>>, err |-> assetsErr]
                      ELSE [data |-> bundle, err |-> Nil]
            r == DNSGenerateOp(cdo.self, got, marshalErr, assets, order)
        IN /\ cdo' = [ self |-> r.cdo,
                       call |-> [ op |-> "Generate", got |-> <<got>>,
                                  marshalErr |-> marshalErr, assets |-> <<assets>>,
                                  order |-> order, state |-> r.state, err |-> r.err ] ]
           /\ UNCHANGED <<no, calls, initialized, last, other>>

Init ==
    /\ InitNetworking
    /\ InitDNS

Next == Generate \/ Load \/ ClusterNetwork \/ Reload

Spec == Init /\ [][Next]_vars

\* The DNS generator on its own: the two assets share nothing.
NextDNS == DNSGenerate

SpecDNS == Init /\ [][NextDNS]_vars

(***************************************************************************)
(* Properties                                                              *)
(***************************************************************************)
GenerateCalled == last.op = "Generate"

Input == last.netConfig[1]

Stored == no.config[1]

\* An address is present and is not all zeroes.
PodCIDRSpecified(n) ==
    LET a == IF To4(n.IP) # Nil THEN To4(n.IP) ELSE n.IP IN
    a # Nil /\ \E i \in 1..Len(a) : a[i] # 0

\* The all-zero addresses, in each of their forms.
UnspecifiedAddresses == { <<0, 0, 0, 0>>, IPv4zero, IPv6unspecified }

\* C1: with a non-empty cluster-network list in the install config (pod CIDR
\* set or not) Generate does not fail with the networking-required error,
\* returns nil whenever yaml.Marshal does, and stores a NetworkConfig whose
\* cluster-network list is the input list: same entries, same order, same
\* host-subnet-lengths, nothing added from the pod CIDR.
C1_ExplicitListPreserved ==
    (GenerateCalled /\ Len(Input.ClusterNetworks) > 0) =>
        /\ last.err # ErrNetworkingRequired
        /\ (last.marshalErr = Nil => last.err = Nil)
        /\ no.config # Nil
        /\ Stored.Spec.ClusterNetworks = Input.ClusterNetworks

C1_Witness ==
    /\ GenerateCalled
    /\ last.err = Nil
    /\ Len(Input.ClusterNetworks) = 2
    /\ Input.ClusterNetworks[1] # Input.ClusterNetworks[2]
    /\ Input.PodCIDR.IP = <<10, 2, 0, 0>>
    /\ Stored.Spec.ClusterNetworks = Input.ClusterNetworks

\* C2: with an empty cluster-network list and a pod CIDR that is set and is
\* not the unspecified address Generate does not fail with the networking-required
\* error, returns nil whenever yaml.Marshal does, and stores a NetworkConfig
\* with exactly one cluster-network entry: the pod CIDR with
\* host-subnet-length 9.
C2_PodCIDRSynthesized ==
    ( /\ GenerateCalled
      /\ Len(Input.ClusterNetworks) = 0
      /\ Input.PodCIDR.IP # Nil
      /\ Input.PodCIDR.IP \notin UnspecifiedAddresses ) =>
        /\ last.err # ErrNetworkingRequired
        /\ (last.marshalErr = Nil => last.err = Nil)
        /\ no.config # Nil
        /\ Len(Stored.Spec.ClusterNetworks) = 1
        /\ Stored.Spec.ClusterNetworks[1].CIDR = CIDRString(Input.PodCIDR)
        /\ Stored.Spec.ClusterNetworks[1].HostSubnetLength = 9

C2_Witness ==
    /\ GenerateCalled
    /\ last.err = Nil
    /\ Len(Input.ClusterNetworks) = 0
    /\ Input.PodCIDR.IP = <<10, 2, 0, 0>>
    /\ Stored.Spec.ClusterNetworks = << [CIDR |-> "10.2.0.0/16", HostSubnetLength |-> 9] >>

\* C3: with neither a non-empty cluster-network list nor a specified pod
\* CIDR, Generate fails with the networking-required error and (on a new
\* asset) leaves no files; and Generate never returns nil with an empty
\* stored list or with a list synthesized from a pod CIDR that is not
\* specified.
C3_NetworkingRequired ==
    GenerateCalled =>
        /\ (Len(Input.ClusterNetworks) = 0 /\ ~PodCIDRSpecified(Input.PodCIDR)) =>
               /\ last.err = ErrNetworkingRequired
               /\ (calls = 1 => Files(no) = Nil)
        /\ last.err = Nil =>
               /\ Len(Stored.Spec.ClusterNetworks) > 0
               /\ (Len(Input.ClusterNetworks) = 0 => PodCIDRSpecified(Input.PodCIDR))

\* C4: after a Generate that returned nil, Load on a fresh asset from a
\* fetcher serving exactly the generated files returns (true, nil) and
\* leaves the same service network, cluster networks and default network,
\* the same FileList, and the same ClusterNetwork result as on the
\* generating asset.
C4_RoundTrip ==
    (other.called /\ GenerateCalled /\ last.err = Nil) =>
        /\ other.ok
        /\ other.err = Nil
        /\ other.no.config # Nil
        /\ other.no.config[1].Spec.ServiceNetwork = Stored.Spec.ServiceNetwork
        /\ other.no.config[1].Spec.ClusterNetworks = Stored.Spec.ClusterNetworks
        /\ other.no.config[1].Spec.DefaultNetwork = Stored.Spec.DefaultNetwork
        /\ Files(other.no) = Files(no)
        /\ ClusterNetworkOp(other.no) = ClusterNetworkOp(no)

C4_Witness ==
    /\ other.called
    /\ other.ok
    /\ GenerateCalled
    /\ last.err = Nil
    /\ Len(Stored.Spec.ClusterNetworks) = 2
    /\ Stored.Spec.ClusterNetworks[1].HostSubnetLength = 23
    /\ Stored.Spec.DefaultNetwork.OpenshiftSDNConfig # Nil
    /\ other.no.config = no.config

LoadCalled == last.op = "Load"

Fetcher == last.f[1]

\* C5 as stated: Load returns (false, nil) whenever either file is absent,
\* for every outcome of fetching the other; a read error other than
\* not-found is returned only when neither file is absent.
C5_AbsentIsNotFound ==
    LoadCalled =>
        /\ (Fetcher.crd.err = ErrNotExist \/ Fetcher.cfg.err = ErrNotExist) =>
               (~last.ok /\ last.err = Nil)
        /\ last.err = ErrIO =>
               (Fetcher.crd.err # ErrNotExist /\ Fetcher.cfg.err # ErrNotExist)

\* C5 (amended): Load returns (false, nil) when the CRD file is absent, for
\* every outcome of fetching the config file, and when the CRD file is
\* fetched and the config file is absent; a read error on the CRD file is
\* returned whatever the config file's state, absent included; a read error
\* on the config file is returned when the CRD file was fetched.
C5_AbsentIsNotFoundInFetchOrder ==
    LoadCalled =>
        /\ Fetcher.crd.err = ErrNotExist => (~last.ok /\ last.err = Nil)
        /\ (Fetcher.crd.err = Nil /\ Fetcher.cfg.err = ErrNotExist) =>
               (~last.ok /\ last.err = Nil)
        /\ Fetcher.crd.err = ErrIO => (~last.ok /\ last.err = ErrIO)
        /\ (Fetcher.crd.err = Nil /\ Fetcher.cfg.err = ErrIO) =>
               (~last.ok /\ last.err = ErrIO)

C5_Witness ==
    /\ LoadCalled
    /\ Fetcher.crd.err = ErrIO
    /\ Fetcher.cfg.err = ErrNotExist
    /\ ~last.ok
    /\ last.err = ErrIO

\* C6: when both files are fetched and the config file's content does not
\* parse as a NetworkConfig, Load returns false and an error that wraps the
\* parse error with the config file's name, whatever the CRD file holds.
C6_ParseErrorWrapped ==
    ( /\ LoadCalled
      /\ Fetcher.crd.err = Nil
      /\ Fetcher.cfg.err = Nil
      /\ Fetcher.cfg.data \in {NotYAML, BadSubnetLength} ) =>
        /\ ~last.ok
        /\ Len(last.err) = 4
        /\ SubSeq(last.err, 1, 3) =
               <<"failed to unmarshal", "manifests", "cluster-network-02-config.yml">>
        /\ <<last.err[4]>> \in {ErrYAMLSyntax, ErrJSONType}

C6_Witness ==
    /\ LoadCalled
    /\ Fetcher.crd = Fetched(NotYAML)
    /\ Fetcher.cfg = Fetched(BadSubnetLength)
    /\ ~last.ok
    /\ last.err # Nil

\* C7: ClusterNetwork returns the 'called before initialization' error if
\* and only if no earlier Generate returned nil and no earlier Load returned
\* true.
C7_InitializedIffSucceeded ==
    last.op = "ClusterNetwork" => ((last.err = ErrNotInitialized) <=> ~initialized)

\* C8: a Generate call that returns an error and a Load call that returns
\* false leave the stored NetworkConfig and the FileList as they were.
C8_NoPartialSuccess ==
    [][ ( /\ calls' = calls + 1
          /\ \/ (last'.op = "Generate" /\ last'.err # Nil)
             \/ (last'.op = "Load" /\ ~last'.ok) ) => no' = no ]_vars

DNSCall == cdo.call

C10_TwoFilesAndDefaults ==
    (GenerateCalled /\ last.err = Nil) =>
        /\ Len(Files(no)) = 2
        /\ Files(no)[1] =
             [ Filename |-> <<"manifests", "cluster-network-01-crd.yml">>,
               Data |-> netConfigCRD ]
        /\ Files(no)[2] =
             [ Filename |-> <<"manifests", "cluster-network-02-config.yml">>,
               Data |-> Marshal(Stored) ]
        /\ Stored.Spec.DefaultNetwork.Type = Input.Type
        /\ (Stored.Spec.DefaultNetwork.OpenshiftSDNConfig # Nil)
             <=> (Input.Type = "OpenshiftSDN")
        /\ Stored.Spec.DefaultNetwork.OpenshiftSDNConfig # Nil =>
             Stored.Spec.DefaultNetwork.OpenshiftSDNConfig[1].Mode = SDNModePolicy

C10_Witness ==
    /\ GenerateCalled
    /\ last.err = Nil
    /\ Input.Type = "OVNKubernetes"
    /\ Stored.Spec.DefaultNetwork = [Type |-> "OVNKubernetes", OpenshiftSDNConfig |-> Nil]
    /\ Len(Files(no)) = 2

====
